---- MODULE Spec2Model ----
(***************************************************************************)
(* Model of the CloudAPI test double's HTTP layer                          *)
(* (localservices/cloudapi/service_http.go): route registration, the       *)
(* top-level dispatch, the six resource-family handlers, the response      *)
(* encoder and the query-filter parser.                                    *)
(*                                                                         *)
(* Strings are TLA+ strings and are handled character by character, as    *)
(* the Go code handles them (HasSuffix, TrimPrefix, Index, Split).         *)
(* The in-memory store is an external collaborator: every store call is    *)
(* recorded in `calls` and its outcome is an input of the request          *)
(* ("ok": a value, "nil": a nil value without error, "err": an error).     *)
(* Request paths are clean (no empty or dot segments), so ServeMux does    *)
(* not rewrite them; its redirect of a subtree root requested without the  *)
(* trailing slash ("/acct" to "/acct/") is modelled.                       *)
(***************************************************************************)
EXTENDS Integers, Sequences, FiniteSets, TLC

VARIABLES
    pc,         \* "idle" | "responded"
    req,        \* the request being served: method, path, rawQuery, body
    route,      \* the handler ServeMux selected for the request
    store,      \* the outcome the store gives the request's operation
    calls,      \* store operations invoked while serving the request
    herr,       \* the error value returned by the family handler
    hresp,      \* the response writer as the family handler left it
    resp,       \* the response writer after the top-level dispatch
    rendered,   \* the ErrorResponse the top-level dispatch rendered
    aborted     \* the handler goroutine panicked before writing a response

vars == <<pc, req, route, store, calls, herr, hresp, resp, rendered, aborted>>

-----------------------------------------------------------------------------
(* Bounds *)

\* most '&'-separated segments of a generated raw query string
MaxSegments == 3
\* most keys of a generated machine-create body
MaxKeys == 3

-----------------------------------------------------------------------------
(* package strings *)

HasPrefix(s, p) == Len(s) >= Len(p) /\ SubSeq(s, 1, Len(p)) = p

HasSuffix(s, p) == Len(s) >= Len(p) /\ SubSeq(s, Len(s) - Len(p) + 1, Len(s)) = p

TrimPrefix(s, p) == IF HasPrefix(s, p) THEN SubSeq(s, Len(p) + 1, Len(s)) ELSE s

TrimSuffix(s, p) == IF HasSuffix(s, p) THEN SubSeq(s, 1, Len(s) - Len(p)) ELSE s

\* strings.Index: 0-based offset of the first occurrence of sub in s, or -1
RECURSIVE IndexFrom(_, _, _)
IndexFrom(s, sub, i) ==
    IF i + Len(sub) > Len(s) THEN -1
    ELSE IF SubSeq(s, i + 1, i + Len(sub)) = sub THEN i
    ELSE IndexFrom(s, sub, i + 1)

Index(s, sub) == IndexFrom(s, sub, 0)

\* strings.Split(s, sep) for a non-empty separator
RECURSIVE Split(_, _)
Split(s, sep) ==
    LET i == Index(s, sep) IN
    IF i < 0 THEN <<s>>
    ELSE <<SubSeq(s, 1, i)>> \o Split(SubSeq(s, i + Len(sep) + 1, Len(s)), sep)

\* strings.Replace(s, old, new, 1)
Replace1(s, old, new) ==
    LET i == Index(s, old) IN
    IF i < 0 THEN s
    ELSE SubSeq(s, 1, i) \o new \o SubSeq(s, i + Len(old) + 1, Len(s))

\* strconv.Itoa for the lengths that occur (0..99)
Digit(d) == SubSeq("0123456789", d + 1, d + 1)

Itoa(n) == IF n < 10 THEN Digit(n) ELSE Digit(n \div 10) \o Digit(n % 10)

-----------------------------------------------------------------------------
(* ErrorResponse and its three canonical instances *)

StatusOK == 200
StatusCreated == 201
StatusAccepted == 202
StatusNoContent == 204
StatusBadRequest == 400
StatusNotFound == 404
StatusMethodNotAllowed == 405
StatusInternalServerError == 500

NoErr == [kind |-> "nil"]

ErrNotAllowed ==
    [kind |-> "ErrorResponse", Code |-> StatusMethodNotAllowed,
     Body |-> "Method is not allowed", contentType |-> "text/plain; charset=UTF-8",
     errorText |-> "MethodNotAllowedError"]

ErrNotFound ==
    [kind |-> "ErrorResponse", Code |-> StatusNotFound,
     Body |-> "Resource Not Found", contentType |-> "text/plain; charset=UTF-8",
     errorText |-> "NotFoundError"]

ErrBadRequest ==
    [kind |-> "ErrorResponse", Code |-> StatusBadRequest,
     Body |-> "Malformed request url", contentType |-> "text/plain; charset=UTF-8",
     errorText |-> "BadRequestError"]

\* a plain Go error (errors.New / fmt.Errorf / a store or decode error)
GoError(text) == [kind |-> "error", text |-> text]

\* err.Error()
ErrorText(e) == IF e.kind = "ErrorResponse" THEN e.errorText ELSE e.text

-----------------------------------------------------------------------------
(* http.ResponseWriter: what the code hands to it *)

NewWriter ==
    [headerWrites |-> 0, code |-> 0, contentType |-> "", contentLength |-> "",
     location |-> "", body |-> "", bodyWrites |-> 0]

\* (*ErrorResponse).ServeHTTP
ErrorResponseServeHTTP(e, w) ==
    LET w1 == IF e.contentType # "" THEN [w EXCEPT !.contentType = e.contentType] ELSE w
        w2 == [w1 EXCEPT !.contentLength = Itoa(Len(e.Body))]
        w3 == IF e.Code # 0
              THEN [w2 EXCEPT !.code = e.Code, !.headerWrites = @ + 1]
              ELSE w2
    IN  IF Len(e.Body) > 0
        THEN [w3 EXCEPT !.body = @ \o e.Body, !.bodyWrites = @ + 1]
        ELSE w3

writeResponse(w, code, body) ==
    [w EXCEPT !.contentLength = Itoa(Len(body)),
              !.code = code, !.headerWrites = @ + 1,
              !.body = @ \o body, !.bodyWrites = @ + 1]

-----------------------------------------------------------------------------
(* encoding/json: the values the handlers marshal and the bodies they decode *)

\* Values handed to sendJSON.  The resource structs (cloudapi.Key, Machine,
\* ...) are declared outside this file; their fields are elided, so a
\* resource renders as the JSON object text "{}".
NilValue == [kind |-> "nil"]
Slice(isnil, n) == [kind |-> "slice", isnil |-> isnil, n |-> n]
Ptr(isnil) == [kind |-> "ptr", isnil |-> isnil]
IntValue(n) == [kind |-> "int", n |-> n]

RECURSIVE MarshalElems(_)
MarshalElems(n) ==
    IF n = 0 THEN "" ELSE IF n = 1 THEN "{}" ELSE "{}," \o MarshalElems(n - 1)

\* json.Marshal: a nil interface, a nil slice and a nil pointer all render
\* as "null"; an empty non-nil slice renders as "[]"
Marshal(v) ==
    CASE v.kind = "nil"   -> "null"
      [] v.kind = "slice" -> IF v.isnil THEN "null" ELSE "[" \o MarshalElems(v.n) \o "]"
      [] v.kind = "ptr"   -> IF v.isnil THEN "null" ELSE "{}"
      [] v.kind = "int"   -> Itoa(v.n)

\* sendJSON: json.Marshal cannot fail on these values, so the returned error
\* is nil and the result is the writer after writeResponse
sendJSON(code, v, w) == writeResponse(w, code, Marshal(v))

\* Decoded JSON documents
JNull == [t |-> "null"]
JStr(s) == [t |-> "string", s |-> s]
JNum(n) == [t |-> "number", n |-> n]
JBool(b) == [t |-> "bool", b |-> b]
JArr(a) == [t |-> "array", a |-> a]
JObj(o) == [t |-> "object", o |-> o]

\* Request bodies: nothing, a reader that fails, bytes that are not JSON, or
\* the bytes of a JSON document
EmptyBody == [kind |-> "empty"]
ReadErrBody == [kind |-> "readerr"]
InvalidBody == [kind |-> "invalid"]
JsonBody(doc) == [kind |-> "json", doc |-> doc]

EmptyMap == [k \in {} |-> ""]

MapPut(m, k, v) == [x \in (DOMAIN m) \cup {k} |-> IF x = k THEN v ELSE m[x]]

\* json.Unmarshal(body, &opts) with opts a map[string]interface{}: an object
\* fills the map, null leaves it untouched, anything else is an error
UnmarshalMap(body) ==
    CASE body.kind = "invalid"      -> [err |-> TRUE, opts |-> EmptyMap]
      [] body.doc.t = "object"      -> [err |-> FALSE, opts |-> body.doc.o]
      [] body.doc.t = "null"        -> [err |-> FALSE, opts |-> EmptyMap]
      [] OTHER                      -> [err |-> TRUE, opts |-> EmptyMap]

\* One string field of an options struct: absent or null keeps the zero
\* value, a string sets it, any other type is an UnmarshalTypeError
StructString(o, k) ==
    IF k \notin DOMAIN o \/ o[k].t = "null" THEN [err |-> FALSE, s |-> ""]
    ELSE IF o[k].t = "string" THEN [err |-> FALSE, s |-> o[k].s]
    ELSE [err |-> TRUE, s |-> ""]

\* json.Unmarshal(body, opts) with opts a struct of two fields f1, f2
UnmarshalOpts(body, f1, f2) ==
    CASE body.kind = "invalid" -> [err |-> TRUE, v1 |-> "", v2 |-> ""]
      [] body.doc.t = "null"   -> [err |-> FALSE, v1 |-> "", v2 |-> ""]
      [] body.doc.t = "object" ->
            LET a == StructString(body.doc.o, f1)
                b == StructString(body.doc.o, f2)
            IN  [err |-> a.err \/ b.err, v1 |-> a.s, v2 |-> b.s]
      [] OTHER                 -> [err |-> TRUE, v1 |-> "", v2 |-> ""]

\* One bool field of an options struct
StructBool(o, k) ==
    IF k \notin DOMAIN o \/ o[k].t = "null" THEN [err |-> FALSE, b |-> FALSE]
    ELSE IF o[k].t = "bool" THEN [err |-> FALSE, b |-> o[k].b]
    ELSE [err |-> TRUE, b |-> FALSE]

\* json.Unmarshal(body, opts) with opts a *cloudapi.CreateFwRuleOpts
UnmarshalFwRuleOpts(body) ==
    CASE body.kind = "invalid" -> [err |-> TRUE, rule |-> "", enabled |-> FALSE]
      [] body.doc.t = "null"   -> [err |-> FALSE, rule |-> "", enabled |-> FALSE]
      [] body.doc.t = "object" ->
            LET a == StructString(body.doc.o, "rule")
                b == StructBool(body.doc.o, "enabled")
            IN  [err |-> a.err \/ b.err, rule |-> a.s, enabled |-> b.b]
      [] OTHER                 -> [err |-> TRUE, rule |-> "", enabled |-> FALSE]

-----------------------------------------------------------------------------
(* Query strings *)

NilFilters == [isnil |-> TRUE, m |-> EmptyMap]

\* filter[:strings.Index(filter, "=")]
filterKey(filter) == SubSeq(filter, 1, Index(filter, "="))

\* mutant: the value is taken from the '=' on instead of after it
filterValueFromEq(filter) == SubSeq(filter, Index(filter, "=") + 1, Len(filter))

\* filter[strings.Index(filter, "=")+1:]
filterValue(filter) == SubSeq(filter, Index(filter, "=") + 2, Len(filter))

\* the loop of processFilter; a segment without '=' makes the slice
\* expression filter[:-1] panic
RECURSIVE filterLoop(_, _, _)
filterLoop(segs, i, m) ==
    IF i > Len(segs) THEN [panic |-> FALSE, filters |-> [isnil |-> FALSE, m |-> m]]
    ELSE IF Index(segs[i], "=") < 0 THEN [panic |-> TRUE, filters |-> NilFilters]
    ELSE filterLoop(segs, i + 1, MapPut(m, filterKey(segs[i]), filterValue(segs[i])))

processFilter(rawQuery) ==
    IF rawQuery # ""
    THEN filterLoop(Split(rawQuery, "&"), 1, EmptyMap)
    ELSE [panic |-> FALSE, filters |-> NilFilters]

\* r.URL.Query().Get(key): the value of the first '&'-separated segment whose
\* text before its first '=' is key (the whole segment when it has no '='),
\* "" when there is none.  Query strings here hold no '%', '+' or ';'.
RECURSIVE queryGetFrom(_, _, _)
queryGetFrom(segs, i, key) ==
    IF i > Len(segs) THEN ""
    ELSE LET seg == segs[i]
             ix == Index(seg, "=")
             k == IF ix < 0 THEN seg ELSE SubSeq(seg, 1, ix)
             v == IF ix < 0 THEN "" ELSE SubSeq(seg, ix + 2, Len(seg))
         IN  IF seg # "" /\ k = key THEN v ELSE queryGetFrom(segs, i + 1, key)

QueryGet(rawQuery, key) == queryGetFrom(Split(rawQuery, "&"), 1, key)

-----------------------------------------------------------------------------
(* The store, seen from the handlers *)

\* c.ServiceInstance.UserAccount
UserAccount == "acct"

Call(op, args) == [op |-> op, args |-> args]

StoreError == GoError("store error")
ReadError == GoError("body read error")
DecodeError == GoError("json decode error")

\* what a handler hands back to the top-level dispatch
Returned(cs, e, w) == [calls |-> cs, panic |-> FALSE, err |-> e, w |-> w]
Panicked(cs) == [calls |-> cs, panic |-> TRUE, err |-> NoErr, w |-> NewWriter]

\* mutant: a nil list is passed on as it is
nilToEmptyKeep(v) == v

\* if xs == nil { xs = []T{} }
nilToEmpty(v) == IF v.isnil THEN Slice(FALSE, 0) ELSE v

\* if x == nil { x = &T{} }
nilToZero(v) == IF v.isnil THEN Ptr(FALSE) ELSE v

\* xs, err := c.ListXs(...); error returned, nil replaced, 200 with the list
respondList(call, o) ==
    IF o = "err" THEN Returned(<<call>>, StoreError, NewWriter)
    ELSE Returned(<<call>>, NoErr,
                  sendJSON(StatusOK, nilToEmpty(Slice(o = "nil", IF o = "nil" THEN 0 ELSE 1)),
                           NewWriter))

\* x, err := c.GetX(id) (or Create, Update, Enable, Disable); error returned,
\* nil replaced by the zero value, the resource sent with the given status
respondResource(call, o, code) ==
    IF o = "err" THEN Returned(<<call>>, StoreError, NewWriter)
    ELSE Returned(<<call>>, NoErr, sendJSON(code, nilToZero(Ptr(o = "nil")), NewWriter))

\* err := c.DeleteX(id) (or a machine action); error returned, otherwise
\* sendJSON(code, nil, w, r)
respondNothing(call, o, code) ==
    IF o = "err" THEN Returned(<<call>>, StoreError, NewWriter)
    ELSE Returned(<<call>>, NoErr, sendJSON(code, NilValue, NewWriter))

\* fmt.Errorf("unknown request method %q for %s", r.Method, r.URL.Path)
unknownMethod(r) ==
    GoError("unknown request method \"" \o r.Method \o "\" for " \o r.Path)

\* the list handlers that filter: processFilter runs before the store call
respondFilteredList(op, r, o) ==
    LET f == processFilter(r.RawQuery) IN
    IF f.panic THEN Panicked(<<>>) ELSE respondList(Call(op, <<f.filters>>), o)

-----------------------------------------------------------------------------
(* handleKeys *)

keysPost(r, o) ==
    IF HasSuffix(r.Path, "keys")
    THEN IF r.Body.kind = "readerr" THEN Returned(<<>>, ReadError, NewWriter)
         ELSE LET d == IF r.Body.kind = "empty"
                       THEN [err |-> FALSE, v1 |-> "", v2 |-> ""]
                       ELSE UnmarshalOpts(r.Body, "name", "key")
              IN  IF d.err THEN Returned(<<>>, DecodeError, NewWriter)
                  ELSE respondResource(Call("CreateKey", <<d.v1, d.v2>>), o, StatusCreated)
    ELSE Returned(<<>>, ErrNotAllowed, NewWriter)

handleKeys(r, o) ==
    LET prefix == "/" \o UserAccount \o "/keys/"
        keyName == TrimPrefix(r.Path, prefix)
    IN  CASE r.Method = "GET" ->
                IF HasSuffix(r.Path, "keys")
                THEN respondList(Call("ListKeys", <<>>), o)
                ELSE respondResource(Call("GetKey", <<keyName>>), o, StatusOK)
          [] r.Method = "POST" -> keysPost(r, o)
          [] r.Method = "PUT" -> Returned(<<>>, ErrNotAllowed, NewWriter)
          [] r.Method = "DELETE" ->
                IF HasSuffix(r.Path, "keys")
                THEN Returned(<<>>, ErrNotAllowed, NewWriter)
                ELSE respondNothing(Call("DeleteKey", <<keyName>>), o, StatusNoContent)
          [] OTHER -> Returned(<<>>, unknownMethod(r), NewWriter)

-----------------------------------------------------------------------------
(* handleImages *)

handleImages(r, o) ==
    LET prefix == "/" \o UserAccount \o "/images/"
        imageID == TrimPrefix(r.Path, prefix)
    IN  CASE r.Method = "GET" ->
                IF HasSuffix(r.Path, "images")
                THEN respondFilteredList("ListImages", r, o)
                ELSE respondResource(Call("GetImage", <<imageID>>), o, StatusOK)
          [] r.Method = "POST" ->
                IF HasSuffix(r.Path, "images")
                THEN Returned(<<>>, ErrNotFound, NewWriter)
                ELSE Returned(<<>>, ErrNotAllowed, NewWriter)
          [] r.Method = "PUT" -> Returned(<<>>, ErrNotAllowed, NewWriter)
          [] r.Method = "DELETE" -> Returned(<<>>, ErrNotAllowed, NewWriter)
          [] OTHER -> Returned(<<>>, unknownMethod(r), NewWriter)

-----------------------------------------------------------------------------
(* handlePackages *)

handlePackages(r, o) ==
    LET prefix == "/" \o UserAccount \o "/packages/"
        pkgName == TrimPrefix(r.Path, prefix)
    IN  CASE r.Method = "GET" ->
                IF HasSuffix(r.Path, "packages")
                THEN respondFilteredList("ListPackages", r, o)
                ELSE respondResource(Call("GetPackage", <<pkgName>>), o, StatusOK)
          [] r.Method = "POST" -> Returned(<<>>, ErrNotAllowed, NewWriter)
          [] r.Method = "PUT" -> Returned(<<>>, ErrNotAllowed, NewWriter)
          [] r.Method = "DELETE" -> Returned(<<>>, ErrNotAllowed, NewWriter)
          [] OTHER -> Returned(<<>>, unknownMethod(r), NewWriter)

-----------------------------------------------------------------------------
(* handleNetworks *)

handleNetworks(r, o) ==
    LET prefix == "/" \o UserAccount \o "/networks/"
        networkID == TrimPrefix(r.Path, prefix)
    IN  CASE r.Method = "GET" ->
                IF HasSuffix(r.Path, "networks")
                THEN respondList(Call("ListNetworks", <<>>), o)
                ELSE respondResource(Call("GetNetwork", <<networkID>>), o, StatusOK)
          [] r.Method = "POST" -> Returned(<<>>, ErrNotAllowed, NewWriter)
          [] r.Method = "PUT" -> Returned(<<>>, ErrNotAllowed, NewWriter)
          [] r.Method = "DELETE" -> Returned(<<>>, ErrNotAllowed, NewWriter)
          [] OTHER -> Returned(<<>>, unknownMethod(r), NewWriter)

-----------------------------------------------------------------------------
(* handleFwRules *)

\* the body of a create or update request, decoded
fwRuleOpts(r) ==
    IF r.Body.kind = "empty"
    THEN [err |-> FALSE, rule |-> "", enabled |-> FALSE]
    ELSE UnmarshalFwRuleOpts(r.Body)

fwRulesPost(r, o) ==
    LET prefix == "/" \o UserAccount \o "/fwrules/"
        fwRuleID == TrimPrefix(r.Path, prefix)
    IN  IF HasSuffix(r.Path, "fwrules")
        THEN IF r.Body.kind = "readerr" THEN Returned(<<>>, ReadError, NewWriter)
             ELSE IF fwRuleOpts(r).err THEN Returned(<<>>, DecodeError, NewWriter)
             ELSE respondResource(
                      Call("CreateFirewallRule", <<fwRuleOpts(r).rule, fwRuleOpts(r).enabled>>),
                      o, StatusCreated)
        ELSE IF HasSuffix(r.Path, "enable")
        THEN respondResource(Call("EnableFirewallRule", <<TrimSuffix(fwRuleID, "/enable")>>),
                             o, StatusOK)
        ELSE IF HasSuffix(r.Path, "disable")
        THEN respondResource(Call("DisableFirewallRule", <<TrimSuffix(fwRuleID, "/disable")>>),
                             o, StatusOK)
        ELSE IF r.Body.kind = "readerr" THEN Returned(<<>>, ReadError, NewWriter)
        ELSE IF fwRuleOpts(r).err THEN Returned(<<>>, DecodeError, NewWriter)
        ELSE respondResource(
                 Call("UpdateFirewallRule",
                      <<fwRuleID, fwRuleOpts(r).rule, fwRuleOpts(r).enabled>>),
                 o, StatusOK)

\* mutant: PUT falls through to the update branch of POST
fwRulesPutAsUpdate(r, o) == fwRulesPost(r, o)

\* case "PUT"
fwRulesPut(r, o) == Returned(<<>>, ErrNotAllowed, NewWriter)

handleFwRules(r, o) ==
    LET prefix == "/" \o UserAccount \o "/fwrules/"
        fwRuleID == TrimPrefix(r.Path, prefix)
    IN  CASE r.Method = "GET" ->
                IF HasSuffix(r.Path, "fwrules")
                THEN respondList(Call("ListFirewallRules", <<>>), o)
                ELSE respondResource(Call("GetFirewallRule", <<fwRuleID>>), o, StatusOK)
          [] r.Method = "POST" -> fwRulesPost(r, o)
          [] r.Method = "PUT" -> fwRulesPut(r, o)
          [] r.Method = "DELETE" ->
                IF HasSuffix(r.Path, "fwrules")
                THEN Returned(<<>>, ErrNotAllowed, NewWriter)
                ELSE respondNothing(Call("DeleteFirewallRule", <<fwRuleID>>), o,
                                    StatusNoContent)
          [] OTHER -> Returned(<<>>, unknownMethod(r), NewWriter)

-----------------------------------------------------------------------------
(* handleMachines *)

\* the variables the create branch declares before it reads the body
NoMachineOpts ==
    [panic |-> FALSE, name |-> "", pkg |-> "", image |-> "",
     networks |-> [isnil |-> TRUE, a |-> <<>>],
     metadata |-> EmptyMap, tags |-> EmptyMap]

\* for _, n := range v.([]interface{}) { networks = append(networks, n.(string)) }
networkNames(a) == [i \in 1..Len(a) |-> a[i].s]

\* one iteration of "for k, v := range opts": a failed type assertion
\* v.(string) or v.([]interface{}) panics
machineField(acc, k, v) ==
    IF v.t = "null" THEN acc
    ELSE CASE k = "name" ->
                IF v.t = "string" THEN [acc EXCEPT !.name = v.s] ELSE [acc EXCEPT !.panic = TRUE]
           [] k = "package" ->
                IF v.t = "string" THEN [acc EXCEPT !.pkg = v.s] ELSE [acc EXCEPT !.panic = TRUE]
           [] k = "image" ->
                IF v.t = "string" THEN [acc EXCEPT !.image = v.s] ELSE [acc EXCEPT !.panic = TRUE]
           [] k = "networks" ->
                IF v.t = "array" /\ \A i \in 1..Len(v.a) : v.a[i].t = "string"
                THEN [acc EXCEPT !.networks = [isnil |-> FALSE, a |-> networkNames(v.a)]]
                ELSE [acc EXCEPT !.panic = TRUE]
           [] OTHER ->
                IF HasPrefix(k, "tag.")
                THEN IF v.t = "string"
                     THEN [acc EXCEPT !.tags = MapPut(@, SubSeq(k, 5, Len(k)), v.s)]
                     ELSE [acc EXCEPT !.panic = TRUE]
                ELSE IF HasPrefix(k, "metadata.")
                THEN IF v.t = "string"
                     THEN [acc EXCEPT !.metadata = MapPut(@, SubSeq(k, 10, Len(k)), v.s)]
                     ELSE [acc EXCEPT !.panic = TRUE]
                ELSE acc

\* "for k, v := range opts", the keys visited in the order the map yields them
RECURSIVE machineOptsLoop(_, _, _, _)
machineOptsLoop(opts, order, i, acc) ==
    IF i > Len(order) \/ acc.panic THEN acc
    ELSE machineOptsLoop(opts, order, i + 1, machineField(acc, order[i], opts[order[i]]))

machinesCreate(r, o, order) ==
    IF r.Body.kind = "readerr" THEN Returned(<<>>, ReadError, NewWriter)
    ELSE LET d == IF r.Body.kind = "empty"
                  THEN [err |-> FALSE, opts |-> EmptyMap]
                  ELSE UnmarshalMap(r.Body)
             f == machineOptsLoop(d.opts, order, 1, NoMachineOpts)
         IN  IF d.err THEN Returned(<<>>, DecodeError, NewWriter)
             ELSE IF f.panic THEN Panicked(<<>>)
             ELSE respondResource(
                      Call("CreateMachine",
                           <<f.name, f.pkg, f.image, f.networks, f.metadata, f.tags>>),
                      o, StatusCreated)

machinesPost(r, o, order) ==
    LET prefix == "/" \o UserAccount \o "/machines/"
        machineID == TrimPrefix(r.Path, prefix)
        action == QueryGet(r.RawQuery, "action")
    IN  IF HasSuffix(r.Path, "machines") THEN machinesCreate(r, o, order)
        ELSE IF action = "stop"
        THEN respondNothing(Call("StopMachine", <<machineID>>), o, StatusAccepted)
        ELSE IF action = "start"
        THEN respondNothing(Call("StartMachine", <<machineID>>), o, StatusAccepted)
        ELSE IF action = "reboot"
        THEN respondNothing(Call("RebootMachine", <<machineID>>), o, StatusAccepted)
        ELSE IF action = "resize"
        THEN respondNothing(
                 Call("ResizeMachine", <<machineID, QueryGet(r.RawQuery, "package")>>),
                 o, StatusAccepted)
        ELSE IF action = "rename"
        THEN respondNothing(
                 Call("RenameMachine", <<machineID, QueryGet(r.RawQuery, "name")>>),
                 o, StatusAccepted)
        ELSE IF action = "enable_firewall"
        THEN respondNothing(Call("EnableFirewallMachine", <<machineID>>), o, StatusAccepted)
        ELSE IF action = "disable_firewall"
        THEN respondNothing(Call("DisableFirewallMachine", <<machineID>>), o, StatusAccepted)
        ELSE Returned(<<>>, ErrNotAllowed, NewWriter)

handleMachines(r, o, order) ==
    LET prefix == "/" \o UserAccount \o "/machines/"
        machineID == TrimPrefix(r.Path, prefix)
    IN  CASE r.Method = "GET" ->
                IF HasSuffix(r.Path, "machines")
                THEN respondFilteredList("ListMachines", r, o)
                ELSE IF HasSuffix(r.Path, "fwrules")
                THEN respondList(
                         Call("ListMachineFirewallRules", <<TrimSuffix(machineID, "/fwrules")>>),
                         o)
                ELSE respondResource(Call("GetMachine", <<machineID>>), o, StatusOK)
          [] r.Method = "HEAD" ->
                IF HasSuffix(r.Path, "machines")
                THEN IF o = "err" THEN Returned(<<Call("CountMachines", <<>>)>>, StoreError, NewWriter)
                     ELSE Returned(<<Call("CountMachines", <<>>)>>, NoErr,
                                   sendJSON(StatusOK, IntValue(IF o = "nil" THEN 0 ELSE 2),
                                            NewWriter))
                ELSE Returned(<<>>, ErrNotAllowed, NewWriter)
          [] r.Method = "POST" -> machinesPost(r, o, order)
          [] r.Method = "PUT" -> Returned(<<>>, ErrNotAllowed, NewWriter)
          [] r.Method = "DELETE" ->
                IF HasSuffix(r.Path, "machines")
                THEN Returned(<<>>, ErrNotAllowed, NewWriter)
                ELSE respondNothing(Call("DeleteMachine", <<machineID>>), o, StatusNoContent)
          [] OTHER -> Returned(<<>>, unknownMethod(r), NewWriter)

-----------------------------------------------------------------------------
(* SetupHTTP and the route ServeMux selects *)

\* the literal map of SetupHTTP
handlers ==
    { <<"/", "ErrNotFound">>,
      <<"/$user/", "ErrBadRequest">>,
      <<"/$user/keys", "handleKeys">>,
      <<"/$user/images", "handleImages">>,
      <<"/$user/packages", "handlePackages">>,
      <<"/$user/machines", "handleMachines">>,
      <<"/$user/fwrules", "handleFwRules">>,
      <<"/$user/networks", "handleNetworks">> }

\* the patterns SetupHTTP registers: every path, and path + "/" for a path
\* that does not end in "/"
Registered ==
    UNION { LET path == Replace1(e[1], "$user", UserAccount)
            IN  (IF ~HasSuffix(path, "/") THEN {<<path \o "/", e[2]>>} ELSE {})
                \cup {<<path, e[2]>>}
            : e \in handlers }

\* ServeMux: the handler registered for exactly this path; otherwise, when
\* path + "/" is registered, a redirect to it; otherwise the handler of the
\* longest registered pattern ending in "/" that is a prefix of the path
MuxHandler(path) ==
    IF \E e \in Registered : e[1] = path
    THEN (CHOOSE e \in Registered : e[1] = path)[2]
    ELSE IF \E e \in Registered : e[1] = path \o "/"
    THEN "Redirect"
    ELSE LET cands == {e \in Registered : HasSuffix(e[1], "/") /\ HasPrefix(path, e[1])}
         IN  (CHOOSE e \in cands : \A d \in cands : Len(d[1]) <= Len(e[1]))[2]

StatusMovedPermanently == 301

\* html escaping of the redirect target; of the characters it replaces only
\* '&' occurs in the query strings here
RECURSIVE htmlEscape(_)
htmlEscape(t) ==
    IF t = "" THEN ""
    ELSE (IF Head(t) = "&" THEN "&amp;" ELSE Head(t)) \o htmlEscape(Tail(t))

\* The redirect ServeMux answers for a subtree root requested without its
\* trailing slash: 301 with Location path + "/" (the query kept), and for a
\* GET the short html body of http.Redirect
muxRedirect(r) ==
    LET url == r.Path \o "/" \o (IF r.RawQuery # "" THEN "?" \o r.RawQuery ELSE "")
        w1 == [NewWriter EXCEPT !.location = url,
                                !.contentType = IF r.Method \in {"GET", "HEAD"}
                                                THEN "text/html; charset=utf-8" ELSE "",
                                !.code = StatusMovedPermanently,
                                !.headerWrites = 1]
    IN  IF r.Method = "GET"
        THEN [w1 EXCEPT !.body = "<a href=\"" \o htmlEscape(url)
                                    \o "\">Moved Permanently</a>.\n\n",
                        !.bodyWrites = 1]
        ELSE w1

-----------------------------------------------------------------------------
(* cloudapiHandler.ServeHTTP *)

\* mutant: the trailing-slash check is gone
trailingSlashNever(path) == FALSE

\* strings.HasSuffix(path, "/") && path != "/"
trailingSlash(path) == HasSuffix(path, "/") /\ path # "/"

InternalErrorBody == "{\"internalServerError\":{\"message\":\"Unkown Error\",code:500}}"

\* mutant: the wire body of the 500 envelope carries the error's text
internalErrorLeaky(err) ==
    [kind |-> "ErrorResponse", Code |-> StatusInternalServerError,
     Body |-> "{\"internalServerError\":{\"message\":\"" \o ErrorText(err) \o "\",code:500}}",
     contentType |-> "application/json", errorText |-> ErrorText(err)]

\* the ErrorResponse built for an error that is no http.Handler
internalError(err) ==
    [kind |-> "ErrorResponse", Code |-> StatusInternalServerError,
     Body |-> InternalErrorBody,
     contentType |-> "application/json", errorText |-> ErrorText(err)]

NotRun == [kind |-> "notrun"]

\* The outcome of serving r through a cloudapiHandler whose method returns h.
\* A panic in the method unwinds through ServeHTTP: nothing is written.
serveHTTP(r, h) ==
    IF trailingSlash(r.Path)
    THEN [calls |-> <<>>, herr |-> NotRun, hresp |-> NewWriter,
          resp |-> ErrorResponseServeHTTP(ErrNotFound, NewWriter),
          rendered |-> ErrNotFound, aborted |-> FALSE]
    ELSE IF h.panic
    THEN [calls |-> h.calls, herr |-> NotRun, hresp |-> h.w, resp |-> h.w,
          rendered |-> NoErr, aborted |-> TRUE]
    ELSE IF h.err = NoErr
    THEN [calls |-> h.calls, herr |-> NoErr, hresp |-> h.w, resp |-> h.w,
          rendered |-> NoErr, aborted |-> FALSE]
    ELSE LET e == IF h.err.kind = "ErrorResponse" THEN h.err ELSE internalError(h.err)
         IN  [calls |-> h.calls, herr |-> h.err, hresp |-> h.w,
              resp |-> ErrorResponseServeHTTP(e, h.w),
              rendered |-> e, aborted |-> FALSE]

-----------------------------------------------------------------------------
(* Requests *)

NoRequest == [Method |-> "", Path |-> "", RawQuery |-> "", Body |-> EmptyBody]

Request(m, p, q, b) == [Method |-> m, Path |-> p, RawQuery |-> q, Body |-> b]

Outcomes == {"ok", "nil", "err"}

Methods == {"GET", "HEAD", "POST", "PUT", "DELETE", "PATCH"}

Families == {"keys", "images", "packages", "machines", "fwrules", "networks"}

CollectionPath(f) == "/" \o UserAccount \o "/" \o f

\* what follows the collection path in the request paths of the model
Suffixes(f) ==
    {"", "/", "/m1", "/m1/", "/my" \o f, "/m1/fwrules", "/r1/enable", "/r1/disable"}

Paths ==
    {"/", "/other", "/other/", "/" \o UserAccount, "/" \o UserAccount \o "/",
     "/" \o UserAccount \o "/zones/"}
    \cup UNION { {CollectionPath(f) \o s : s \in Suffixes(f)} : f \in Families }

Queries ==
    {"", "action=stop", "action=start", "action=reboot", "action=resize&package=g4",
     "action=rename&name=n2", "action=enable_firewall", "action=disable_firewall",
     "action=bogus", "state=running", "state", "name=n2&action=rename"}

Bodies ==
    { EmptyBody, ReadErrBody, InvalidBody, JsonBody(JNull), JsonBody(JArr(<<>>)),
      JsonBody(JObj([k \in {"name", "key"} |-> JStr(k)])),
      JsonBody(JObj([k \in {"rule", "enabled"} |->
                        IF k = "rule" THEN JStr("r") ELSE JBool(TRUE)])),
      JsonBody(JObj([k \in {"name"} |-> JNum(5)])),
      JsonBody(JObj([k \in {"tag.env", "metadata.role", "networks"} |->
                        CASE k = "tag.env" -> JStr("prod")
                          [] k = "metadata.role" -> JStr("db")
                          [] k = "networks" -> JArr(<<JStr("net1"), JStr("net2")>>)])) }

\* only a POST carries a body
Requests ==
    { Request(m, p, q, EmptyBody) : m \in Methods \ {"POST"}, p \in Paths, q \in Queries }
    \cup { Request("POST", p, q, b) : p \in Paths, q \in Queries, b \in Bodies }

\* the orders in which "range opts" can yield the keys of the decoded body
Orders(r) ==
    IF r.Body.kind = "json" /\ r.Body.doc.t = "object"
    THEN LET K == DOMAIN r.Body.doc.o
         IN  {s \in [1..Cardinality(K) -> K] : \A i, j \in 1..Cardinality(K) : s[i] = s[j] => i = j}
    ELSE {<<>>}

-----------------------------------------------------------------------------
(* The state machine: one action per registered handler *)

Init ==
    /\ pc = "idle"
    /\ req = NoRequest
    /\ route = ""
    /\ store = "ok"
    /\ calls = <<>>
    /\ herr = NotRun
    /\ hresp = NewWriter
    /\ resp = NewWriter
    /\ rendered = NoErr
    /\ aborted = FALSE

\* ServeMux hands r to the handler registered as name, which leaves outcome s
Respond(r, name, o, s) ==
    /\ MuxHandler(r.Path) = name
    /\ pc' = "responded"
    /\ req' = r
    /\ route' = name
    /\ store' = o
    /\ calls' = s.calls
    /\ herr' = s.herr
    /\ hresp' = s.hresp
    /\ resp' = s.resp
    /\ rendered' = s.rendered
    /\ aborted' = s.aborted

\* a route whose handler is an ErrorResponse itself
direct(e) ==
    [calls |-> <<>>, herr |-> NotRun, hresp |-> NewWriter,
     resp |-> ErrorResponseServeHTTP(e, NewWriter), rendered |-> NoErr, aborted |-> FALSE]

\* R is the set of requests the environment may send
ServeNotFound(R) ==
    /\ pc = "idle"
    /\ \E r \in R : Respond(r, "ErrNotFound", "ok", direct(ErrNotFound))

ServeBadRequest(R) ==
    /\ pc = "idle"
    /\ \E r \in R : Respond(r, "ErrBadRequest", "ok", direct(ErrBadRequest))

\* no registered handler runs: ServeMux itself answers with the redirect
ServeRedirect(R) ==
    /\ pc = "idle"
    /\ \E r \in R :
          Respond(r, "Redirect", "ok",
                  [calls |-> <<>>, herr |-> NotRun, hresp |-> NewWriter,
                   resp |-> muxRedirect(r), rendered |-> NoErr, aborted |-> FALSE])

ServeKeys(R) ==
    /\ pc = "idle"
    /\ \E r \in R, o \in Outcomes :
          Respond(r, "handleKeys", o, serveHTTP(r, handleKeys(r, o)))

ServeImages(R) ==
    /\ pc = "idle"
    /\ \E r \in R, o \in Outcomes :
          Respond(r, "handleImages", o, serveHTTP(r, handleImages(r, o)))

ServePackages(R) ==
    /\ pc = "idle"
    /\ \E r \in R, o \in Outcomes :
          Respond(r, "handlePackages", o, serveHTTP(r, handlePackages(r, o)))

ServeMachines(R) ==
    /\ pc = "idle"
    /\ \E r \in R, o \in Outcomes :
          \E order \in Orders(r) :
              Respond(r, "handleMachines", o, serveHTTP(r, handleMachines(r, o, order)))

ServeFwRules(R) ==
    /\ pc = "idle"
    /\ \E r \in R, o \in Outcomes :
          Respond(r, "handleFwRules", o, serveHTTP(r, handleFwRules(r, o)))

ServeNetworks(R) ==
    /\ pc = "idle"
    /\ \E r \in R, o \in Outcomes :
          Respond(r, "handleNetworks", o, serveHTTP(r, handleNetworks(r, o)))

\* the response is delivered and the per-request state is discarded
Finish ==
    /\ pc = "responded"
    /\ pc' = "idle"
    /\ req' = NoRequest
    /\ route' = ""
    /\ store' = "ok"
    /\ calls' = <<>>
    /\ herr' = NotRun
    /\ hresp' = NewWriter
    /\ resp' = NewWriter
    /\ rendered' = NoErr
    /\ aborted' = FALSE

Next ==
    \/ ServeNotFound(Requests)
    \/ ServeBadRequest(Requests)
    \/ ServeRedirect(Requests)
    \/ ServeKeys(Requests)
    \/ ServeImages(Requests)
    \/ ServePackages(Requests)
    \/ ServeMachines(Requests)
    \/ ServeFwRules(Requests)
    \/ ServeNetworks(Requests)
    \/ Finish

Spec == Init /\ [][Next]_vars

-----------------------------------------------------------------------------
(* The filter parser on generated query strings *)

FilterSegments ==
    {k \o "=" \o v : k \in {"", "a", "b"}, v \in {"1", "2", "1=2"}} \cup {"a=", "a", ""}

RECURSIVE JoinAmp(_)
JoinAmp(segs) ==
    IF Len(segs) = 1 THEN segs[1] ELSE segs[1] \o "&" \o JoinAmp(Tail(segs))

\* raw query strings of at most MaxSegments segments
GenQueries ==
    {""} \cup UNION { {JoinAmp(s) : s \in [1..n -> FilterSegments]} : n \in 1..MaxSegments }

FilterRequests ==
    { Request("GET", CollectionPath(f), q, EmptyBody) :
        f \in {"images", "packages", "machines"}, q \in GenQueries }

NextFilter ==
    \/ ServeImages(FilterRequests)
    \/ ServePackages(FilterRequests)
    \/ ServeMachines(FilterRequests)
    \/ Finish

SpecFilter == Init /\ [][NextFilter]_vars

-----------------------------------------------------------------------------
(* Machine creation on generated JSON object bodies *)

GenKeys == {"name", "package", "image", "networks", "tag.env", "metadata.role", "tagged"}

GenValues == {JNull, JStr("prod"), JStr("db"), JNum(5), JArr(<<JStr("net1"), JStr("net2")>>)}

\* JSON objects of at most MaxKeys keys
GenObjects ==
    UNION { [K -> GenValues] : K \in {S \in SUBSET GenKeys : Cardinality(S) <= MaxKeys} }

CreateRequests ==
    { Request("POST", CollectionPath("machines"), "", JsonBody(JObj(obj))) : obj \in GenObjects }

NextCreate ==
    \/ ServeMachines(CreateRequests)
    \/ Finish

SpecCreate == Init /\ [][NextCreate]_vars

-----------------------------------------------------------------------------
(* Vocabulary of the properties *)

Responded == pc = "responded"

FamilyHandlers ==
    {"handleKeys", "handleImages", "handlePackages", "handleMachines",
     "handleFwRules", "handleNetworks"}

\* the path ends in '/' and is not the root
EndsInSlash(p) == Len(p) > 1 /\ SubSeq(p, Len(p), Len(p)) = "/"

AccountRoot == "/" \o UserAccount \o "/"

\* the path lies under a family's collection path
UnderFamily(p, f) == p = CollectionPath(f) \/ HasPrefix(p, CollectionPath(f) \o "/")

\* the path lies under the account root and under no family
UnderAccountRootOnly(p) ==
    HasPrefix(p, AccountRoot) /\ \A f \in Families : ~UnderFamily(p, f)

NoStoreCall == calls = <<>>

-----------------------------------------------------------------------------
(* C1 *)

-----------------------------------------------------------------------------
(* C2 *)

\* the paths SetupHTTP registers for the families
RegisteredFamilyPaths ==
    {CollectionPath(f) : f \in Families} \cup {CollectionPath(f) \o "/" : f \in Families}

\* C2 as stated: a PUT to any path registered by SetupHTTP for a family is
\* answered 405 and invokes no store operation.
C2_PutRegistered405 ==
    (Responded /\ req.Method = "PUT" /\ req.Path \in RegisteredFamilyPaths) =>
        (resp.code = StatusMethodNotAllowed /\ NoStoreCall)

\* C2 amended: a PUT to any path dispatched to a family handler invokes no
\* store operation and is answered 405 when the path does not end in '/';
\* a PUT to a path ending in '/' (the registered trailing-slash variants
\* included) is answered 404.
C2_PutRejected ==
    (Responded /\ req.Method = "PUT" /\ \E f \in Families : UnderFamily(req.Path, f)) =>
        /\ NoStoreCall
        /\ resp.headerWrites = 1
        /\ IF EndsInSlash(req.Path)
           THEN resp.code = StatusNotFound
           ELSE resp.code = StatusMethodNotAllowed /\ resp.body = "Method is not allowed"

C2_Witness ==
    /\ Responded
    /\ req.Method = "PUT"
    /\ req.Path = CollectionPath("fwrules")
    /\ resp.code = StatusMethodNotAllowed
    /\ NoStoreCall

-----------------------------------------------------------------------------
(* C3 *)

MachineActions ==
    {"stop", "start", "reboot", "resize", "rename", "enable_firewall", "disable_firewall"}

\* /{account}/machines/{id} with a one-segment id
SingleMachinePath(p) ==
    /\ HasPrefix(p, CollectionPath("machines") \o "/")
    /\ Len(p) > Len(CollectionPath("machines")) + 1
    /\ Index(TrimPrefix(p, CollectionPath("machines") \o "/"), "/") < 0

\* the store call the table of actions gives
ActionCall(a, id, q) ==
    CASE a = "stop" -> Call("StopMachine", <<id>>)
      [] a = "start" -> Call("StartMachine", <<id>>)
      [] a = "reboot" -> Call("RebootMachine", <<id>>)
      [] a = "resize" -> Call("ResizeMachine", <<id, QueryGet(q, "package")>>)
      [] a = "rename" -> Call("RenameMachine", <<id, QueryGet(q, "name")>>)
      [] a = "enable_firewall" -> Call("EnableFirewallMachine", <<id>>)
      [] a = "disable_firewall" -> Call("DisableFirewallMachine", <<id>>)

\* C3: a POST to a single machine path calls exactly the store operation its
\* 'action' parameter names and answers 202 when that call succeeds; without
\* a recognized action it answers 405 and calls nothing.
C3_ActionDispatch ==
    (Responded /\ req.Method = "POST" /\ SingleMachinePath(req.Path)) =>
        LET id == TrimPrefix(req.Path, CollectionPath("machines") \o "/")
            a == QueryGet(req.RawQuery, "action")
        IN  IF a \in MachineActions
            THEN /\ Len(calls) = 1
                 /\ calls[1].op = ActionCall(a, id, req.RawQuery).op
                 /\ calls[1].args = ActionCall(a, id, req.RawQuery).args
                 /\ (store # "err" => resp.code = StatusAccepted)
            ELSE resp.code = StatusMethodNotAllowed /\ NoStoreCall

-----------------------------------------------------------------------------
(* C4 *)

\* C4: every successful machine action (202) and every successful
\* single-resource DELETE (204) hands zero body bytes to the response writer
\* and sets Content-Length to 0.
C4_EmptyBodyOnAcceptedAndNoContent ==
    (Responded /\ resp.code \in {StatusAccepted, StatusNoContent}) =>
        (resp.body = "" /\ resp.contentLength = "0")

-----------------------------------------------------------------------------
(* C5 *)

ListOps ==
    {"ListKeys", "ListImages", "ListPackages", "ListMachines", "ListFirewallRules",
     "ListNetworks", "ListMachineFirewallRules"}

\* the collection paths and the machine-scoped firewall-rule list
ListPath(p) ==
    \/ \E f \in Families : p = CollectionPath(f)
    \/ /\ HasPrefix(p, CollectionPath("machines") \o "/")
       /\ HasSuffix(p, "/fwrules")

\* C5: a GET on a collection path whose store list operation returns nil
\* without error is answered 200 with the body "[]", never "null".
C5_NilListIsEmptyArray ==
    (Responded /\ req.Method = "GET" /\ ListPath(req.Path) /\ store = "nil"
       /\ ~NoStoreCall) =>
        /\ calls[1].op \in ListOps
        /\ resp.code = StatusOK
        /\ resp.body = "[]"
        /\ resp.contentLength = "2"

C5_Witness ==
    /\ Responded
    /\ req.Method = "GET"
    /\ req.Path = CollectionPath("machines") \o "/m1/fwrules"
    /\ store = "nil"
    /\ Len(calls) = 1
    /\ calls[1].op = "ListMachineFirewallRules"
    /\ resp.body = "[]"

-----------------------------------------------------------------------------
(* C6 *)

\* C6: every request that reaches a family handler ends in a written
\* response, a success or a rendered error; none aborts without one.
C6_AlwaysResponds ==
    (Responded /\ route \in FamilyHandlers) =>
        /\ ~aborted
        /\ resp.headerWrites = 1
        /\ (herr.kind = "error" => resp.code = StatusInternalServerError)

-----------------------------------------------------------------------------
(* C9 *)

\* C9: an error returned by a family handler is rendered exactly once: a
\* renderable failure with its own status and body, any other error as 500
\* with content type application/json and the fixed generic body, its text
\* kept only in errorText; after a nil return nothing further is written.
C9_ErrorRendering ==
    (Responded /\ herr.kind # "notrun") =>
        /\ (herr.kind = "nil" => resp = hresp)
        /\ (herr.kind = "ErrorResponse" =>
               /\ resp.headerWrites = 1
               /\ resp.code = herr.Code
               /\ resp.code \in {StatusMethodNotAllowed, StatusNotFound, StatusBadRequest}
               /\ resp.body = herr.Body)
        /\ (herr.kind = "error" =>
               /\ resp.headerWrites = 1
               /\ resp.bodyWrites = 1
               /\ resp.code = StatusInternalServerError
               /\ resp.contentType = "application/json"
               /\ resp.body = "{\"internalServerError\":{\"message\":\"Unkown Error\",code:500}}"
               /\ rendered.errorText = herr.text)

C9_Witness ==
    /\ Responded
    /\ req.Method = "PATCH"
    /\ herr.kind = "error"
    /\ herr.text = "unknown request method \"PATCH\" for /acct/keys"
    /\ rendered.errorText = herr.text
    /\ resp.code = StatusInternalServerError

-----------------------------------------------------------------------------
(* C10 *)

FamilyOf(h) ==
    CASE h = "handleKeys" -> "keys"
      [] h = "handleImages" -> "images"
      [] h = "handlePackages" -> "packages"
      [] h = "handleMachines" -> "machines"
      [] h = "handleFwRules" -> "fwrules"
      [] h = "handleNetworks" -> "networks"

CollectionOps ==
    {"ListKeys", "ListImages", "ListPackages", "ListMachines", "ListFirewallRules",
     "ListNetworks", "CreateKey", "CreateMachine", "CreateFirewallRule", "CountMachines"}

DeleteOps == {"DeleteKey", "DeleteMachine", "DeleteFirewallRule"}

\* C10: a request is a collection-level operation exactly when nothing
\* follows the family prefix; with an identifier after it (also one that ends
\* in the family name) GET, DELETE and a machine POST act on that identifier.
C10_CollectionIffEmptySuffix ==
    (Responded /\ route \in FamilyHandlers /\ ~EndsInSlash(req.Path)) =>
        LET f == FamilyOf(route)
            suffix == TrimPrefix(req.Path, CollectionPath(f))
        IN  /\ (~NoStoreCall /\ calls[1].op \in CollectionOps) => suffix = ""
            /\ (~NoStoreCall /\ suffix = "") => calls[1].op \in CollectionOps
            /\ (suffix # "" /\ req.Method = "DELETE" /\ f \in {"keys", "machines", "fwrules"}) =>
                  /\ Len(calls) = 1
                  /\ calls[1].op \in DeleteOps
                  /\ calls[1].args = <<TrimPrefix(suffix, "/")>>
                  /\ (store # "err" => resp.code = StatusNoContent)

-----------------------------------------------------------------------------
(* C7 *)

\* the string under key k, "" when the key is absent or null
StringField(obj, k) == IF k \in DOMAIN obj /\ obj[k].t = "string" THEN obj[k].s ELSE ""

\* the entries {k without prefix -> v} over the non-null keys with the prefix
PrefixedEntries(obj, prefix) ==
    LET ks == {k \in DOMAIN obj : HasPrefix(k, prefix) /\ obj[k].t # "null"}
    IN  [x \in {SubSeq(k, Len(prefix) + 1, Len(k)) : k \in ks} |->
            IF obj[prefix \o x].t = "string" THEN obj[prefix \o x].s ELSE obj[prefix \o x]]

\* the "networks" array in its order, the nil slice when absent or null
NetworksField(obj) ==
    IF "networks" \in DOMAIN obj /\ obj["networks"].t = "array"
    THEN [isnil |-> FALSE,
          a |-> [i \in 1..Len(obj["networks"].a) |->
                    IF obj["networks"].a[i].t = "string"
                    THEN obj["networks"].a[i].s ELSE obj["networks"].a[i]]]
    ELSE [isnil |-> TRUE, a |-> <<>>]

\* C7: a POST to the machines collection path with a JSON object body calls
\* CreateMachine once with name, package and image from the keys of those
\* names ("" when absent), the networks array in its order, tags and
\* metadata from exactly the "tag."- and "metadata."-prefixed keys with the
\* prefix stripped, other keys ignored and null values skipped; the response
\* is 201.
C7_CreateMachineArguments ==
    (Responded /\ req.Method = "POST" /\ req.Path = CollectionPath("machines")
       /\ req.Body.kind = "json" /\ req.Body.doc.t = "object") =>
        LET obj == req.Body.doc.o
        IN  /\ ~aborted
            /\ Len(calls) = 1
            /\ calls[1].op = "CreateMachine"
            /\ calls[1].args =
                  << StringField(obj, "name"), StringField(obj, "package"),
                     StringField(obj, "image"), NetworksField(obj),
                     PrefixedEntries(obj, "metadata."), PrefixedEntries(obj, "tag.") >>
            /\ resp.code = StatusCreated

-----------------------------------------------------------------------------
(* C8 *)

\* the number of characters before the first '=' of a segment that has one
FirstEq(seg) ==
    CHOOSE n \in 0..(Len(seg) - 1) :
        /\ SubSeq(seg, n + 1, n + 1) = "="
        /\ \A j \in 1..n : SubSeq(seg, j, j) # "="

HasEq(seg) == \E n \in 1..Len(seg) : SubSeq(seg, n, n) = "="

KeyOf(seg) == SubSeq(seg, 1, FirstEq(seg))

ValueOf(seg) == SubSeq(seg, FirstEq(seg) + 2, Len(seg))

\* C8: processFilter gives the nil filter set for the empty raw query, and
\* for a non-empty one whose segments all contain '=' a non-nil map from the
\* text before each segment's first '=' to the text after it, a later
\* segment overwriting an earlier one with the same key.
C8_ProcessFilter ==
    (Responded /\ req.Method = "GET"
       /\ req.Path \in {CollectionPath(f) : f \in {"images", "packages", "machines"}}) =>
        LET segs == Split(req.RawQuery, "&")
        IN  /\ req.RawQuery = "" =>
                  (Len(calls) = 1 /\ calls[1].args[1].isnil /\ calls[1].args[1].m = EmptyMap)
            /\ (req.RawQuery # "" /\ \A i \in 1..Len(segs) : HasEq(segs[i])) =>
                  /\ ~aborted
                  /\ Len(calls) = 1
                  /\ ~calls[1].args[1].isnil
                  /\ LET m == calls[1].args[1].m
                     IN  /\ DOMAIN m = {KeyOf(segs[i]) : i \in 1..Len(segs)}
                         /\ \A i \in 1..Len(segs) :
                               (\A j \in (i + 1)..Len(segs) : KeyOf(segs[j]) # KeyOf(segs[i]))
                                  => m[KeyOf(segs[i])] = ValueOf(segs[i])

C8_Witness ==
    /\ Responded
    /\ req.RawQuery = "a=1&b=2&a=1=2"
    /\ Len(calls) = 1
    /\ calls[1].op = "ListImages"
    /\ ~calls[1].args[1].isnil
    /\ DOMAIN calls[1].args[1].m = {"a", "b"}
    /\ calls[1].args[1].m["a"] = "1=2"
    /\ calls[1].args[1].m["b"] = "2"

====
